---- MODULE Spec2Model ----
(***************************************************************************)
(* Model of the Arch indexer (arch-indexer/src/index.js): the startup      *)
(* sequence of the app.listen callback, connectWithRetry, the syncBlocks   *)
(* loop, storeBlock with its database transaction and its concurrently     *)
(* running per-transaction promises, and the PostgreSQL store (tables      *)
(* blocks and transactions with their keys and the foreign key).           *)
(*                                                                         *)
(* One action is one event-loop turn of the Node process (the code between *)
(* two awaits), one statement executed by the database server, or one step *)
(* of the environment (the upstream node, a kill of the process).          *)
(***************************************************************************)
EXTENDS Integers, Sequences, FiniteSets, TLC

(***************************************************************************)
(* Bounds of the model.                                                    *)
(***************************************************************************)
\* highest height the upstream node ever reports
MaxTip == 2
\* how many times the process is killed and started again
MaxKills == 1

(***************************************************************************)
(* Program constants.                                                      *)
(***************************************************************************)
MAX_RETRIES == 10
RETRY_DELAY == 5000
\* setTimeout(syncBlocks, 5000) when the node is not ready
NotReadyDelay == 5000
\* the sleep of the inner catch of syncBlocks
BlockRetryDelay == 5000
\* the two values of `delay`, and the delay of the outer catch
CaughtUpDelay == 1000
BehindDelay == 10000
ErrorDelay == 10000

VARIABLES
    \* ---- the process ----
    pc,                 \* where the startup / sync code is suspended
    retries,            \* connectWithRetry: let retries
    timer,              \* delay of the pending setTimeout, 0 when none
    currentBlockHeight, \* the cursor
    latestBlockHeight,  \* syncBlocks: const latestBlockHeight of the pass
    blockHash,          \* syncBlocks: const blockHash
    block,              \* syncBlocks: const block (NoBlock when none)
    client,             \* storeBlock: const client (NoClient when none)
    promises,           \* storeBlock: transactionPromises of the running call
    late,               \* promises of failed calls whose fetch is pending; ended
                        \* tells that the pass that created the promise is over
    averageBlockTime,   \* let averageBlockTime (milliseconds)
    syncCalls,          \* invocations of syncBlocks that have not returned
    syncTimers,         \* pending setTimeout(syncBlocks, ...) callbacks
    req,                \* the HTTP requests whose handlers are running
    \* ---- the database ----
    blocks,             \* committed rows of table blocks, by height
    transactions,       \* committed rows of table transactions, by txid
    txn,                \* the open database transaction of storeBlock
    \* ---- the upstream node ----
    processed,          \* txids the node reports as no longer 'Processing'
    \* ---- history ----
    kills,              \* how often the process was killed so far
    connects,           \* pool.connect() calls of connectWithRetry this run
    firstFetch          \* first height asked of getBlockHash this run, -1 if none

procVars == <<pc, retries, timer, currentBlockHeight, latestBlockHeight,
              blockHash, block, client, promises, late>>
dbVars == <<blocks, transactions, txn>>
histVars == <<kills, connects, firstFetch>>
loopVars == <<syncCalls, syncTimers>>
apiVars == <<req>>
vars == <<procVars, averageBlockTime, loopVars, apiVars, dbVars, processed, histVars>>

(***************************************************************************)
(* The upstream chain: what the RPC calls return.                          *)
(***************************************************************************)
Heights == 0..MaxTip

\* number of transactions of the block at height h: the chain has blocks
\* without transactions and blocks with two
TxCount(h) == IF h % 4 = 1 THEN 2 ELSE 0

\* the clients pool.connect() hands out: a promise left behind by a failed
\* storeBlock holds the client of the running call or another one
Clients == {"client1", "client2"}
NoClient == "none"

\* getBlockHash(height). Hashes and transaction ids are strings of 64
\* hexadecimal characters; in the chain of the model the hash of block 2 is the
\* same string as the id of the second transaction of block 1
UpHash(h) == IF h = 2 THEN <<"tx", 1, 2>> ELSE <<"hash", h>>

\* the height of the block the node knows under a hash
HeightOf(hash) == CHOOSE h \in Heights : UpHash(h) = hash

\* getBlock(hash).transactions: the ordered list of txids of the block
UpTransactions(hash) ==
    [i \in 1..TxCount(HeightOf(hash)) |-> <<"tx", HeightOf(hash), i>>]

\* getBlock(hash): the block as the node returns it
UpBlock(hash) ==
    [timestamp |-> 1000 + HeightOf(hash),
     bitcoin_block_height |-> 0,
     transactions |-> UpTransactions(hash)]

Txids == UNION {{UpTransactions(UpHash(h))[i] : i \in 1..TxCount(h)} : h \in Heights}

\* getProcessedTransaction(txId) when the node's state is p
UpTx(t, p) ==
    [runtime_transaction |-> <<"rt", t>>,
     status |-> IF t \in p THEN "Processed" ELSE "Processing",
     bitcoin_txids |-> IF t[3] = 1 THEN <<>> ELSE << <<"btc", t>> >>]

NoBlock == [height |-> -1, hash |-> <<"hash", -1>>, timestamp |-> 0,
            bitcoin_block_height |-> 0, transactions |-> <<>>]
NoHash == <<"hash", -1>>
NoRow == [txid |-> <<"tx", -1, 0>>, block_height |-> -1, data |-> <<"json", 0>>,
          status |-> 0, bitcoin_txids |-> <<>>]

(***************************************************************************)
(* The store: tables blocks and transactions as sets of rows, the upserts  *)
(* of storeBlock, the foreign key, and the transaction of one connection.  *)
(***************************************************************************)
\* INSERT INTO blocks ... ON CONFLICT (height) DO UPDATE SET ...
UpsertBlock(table, row) ==
    {r \in table : r.height # row.height} \cup {row}

\* INSERT INTO transactions ... ON CONFLICT (txid) DO UPDATE SET ...
UpsertTransaction(table, row) ==
    {r \in table : r.txid # row.txid} \cup {row}

\* COMMIT: the rows written inside the transaction replace the committed ones
CommitBlocks(table, rows) ==
    {r \in table : \A w \in rows : w.height # r.height} \cup rows

\* a COMMIT that makes the block rows visible without the transaction rows
CommitTransactionsLater(table, rows) == table

CommitTransactions(table, rows) ==
    {r \in table : \A w \in rows : w.txid # r.txid} \cup rows

\* the parameters [block.height, block.hash, block.timestamp, block.bitcoin_block_height]
BlockRow(b) ==
    [height |-> b.height, hash |-> b.hash, timestamp |-> b.timestamp,
     bitcoin_block_height |-> b.bitcoin_block_height]

\* JSON.stringify(tx.runtime_transaction)
Stringify(v) == <<"json", v>>

\* a TEXT[] parameter as the server stores it: the literal '{}' is the empty array
PgTextArray(v) == IF v.literal = "{}" THEN <<>> ELSE v.array

\* tx.bitcoin_txids && tx.bitcoin_txids.length > 0 ? tx.bitcoin_txids : '{}'
BitcoinTxidsParam(ids) ==
    IF Len(ids) > 0 THEN [literal |-> "", array |-> ids]
    ELSE [literal |-> "{}", array |-> <<>>]

\* the row with the status test the wrong way round
TransactionRowInverted(txId, height, tx) ==
    [txid |-> txId,
     block_height |-> height,
     data |-> Stringify(tx.runtime_transaction),
     status |-> IF tx.status = "Processing" THEN 1 ELSE 0,
     bitcoin_txids |-> PgTextArray(BitcoinTxidsParam(tx.bitcoin_txids))]

\* a row that does not carry the runtime transaction that was fetched
TransactionRowNoData(txId, height, tx) ==
    [txid |-> txId,
     block_height |-> height,
     data |-> Stringify(<<>>),
     status |-> IF tx.status = "Processing" THEN 0 ELSE 1,
     bitcoin_txids |-> PgTextArray(BitcoinTxidsParam(tx.bitcoin_txids))]

\* the parameters of the INSERT INTO transactions of storeBlock
TransactionRow(txId, height, tx) ==
    [txid |-> txId,
     block_height |-> height,
     data |-> Stringify(tx.runtime_transaction),
     status |-> IF tx.status = "Processing" THEN 0 ELSE 1,
     bitcoin_txids |-> PgTextArray(BitcoinTxidsParam(tx.bitcoin_txids))]

\* a transactions table without its foreign key
NoForeignKey(row, visible) == TRUE

\* FOREIGN KEY (block_height) REFERENCES blocks(height), checked by the statement
ForeignKeyOk(row, visible) == \E b \in visible : b.height = row.block_height

NoTxn == [status |-> "none", conn |-> NoClient, blocks |-> {}, transactions |-> {}]

\* the blocks a statement running inside the open transaction sees
VisibleBlocks == blocks \cup txn.blocks

\* SELECT MAX(height) as max_height FROM blocks; NULL (here -1) on an empty table
MaxHeight(table) ==
    IF table = {} THEN -1
    ELSE CHOOSE m \in {r.height : r \in table} : \A r \in table : r.height <= m

\* a startup that resumes two above the highest stored height
StartupHeightSkip(table) == MaxHeight(table) + 2

\* a startup that resumes one above the highest stored height
StartupHeightNext(table) == MaxHeight(table) + 1

\* currentBlockHeight = result.rows[0].max_height || 0
StartupHeight(table) ==
    IF MaxHeight(table) = -1 \/ MaxHeight(table) = 0 THEN 0 ELSE MaxHeight(table)

\* milliseconds as the decimal fraction num / 10^exp, in lowest terms
RECURSIVE Normal(_, _)
Normal(num, exp) ==
    IF exp > 0 /\ num % 10 = 0 THEN Normal(num \div 10, exp - 1)
    ELSE [num |-> num, exp |-> exp]

RECURSIVE Pow10(_)
Pow10(n) == IF n = 0 THEN 1 ELSE 10 * Pow10(n - 1)

\* let averageBlockTime = 0
NoAverage == [num |-> 0, exp |-> 0]

\* averageBlockTime === 0 ? blockTime : (averageBlockTime * 0.9 + blockTime * 0.1)
Ema(avg, blockTime) ==
    IF avg.num = 0 THEN Normal(blockTime, 0)
    ELSE Normal(9 * avg.num + blockTime * Pow10(avg.exp), avg.exp + 1)

\* Date.now() - blockStartTime of a stored block, in milliseconds
BlockTimes == {1000}

\* two requests are followed at a time: request 1 is any request, request 2,
\* which runs next to it, is a lookup of one transaction
Requests == {1, 2}

\* no request is being handled
NoReq == [route |-> "none", param |-> <<>>, stage |-> "idle", local |-> <<>>,
          sent |-> 0, status |-> 0, body |-> <<>>]

Init ==
    /\ pc = "connectWithRetry"
    /\ retries = 0
    /\ timer = 0
    /\ currentBlockHeight = 0
    /\ latestBlockHeight = 0
    /\ blockHash = NoHash
    /\ block = NoBlock
    /\ client = NoClient
    /\ promises = <<>>
    /\ late = {}
    /\ averageBlockTime = NoAverage
    /\ syncCalls = 0
    /\ syncTimers = 0
    /\ req = [k \in Requests |-> NoReq]
    /\ blocks = {}
    /\ transactions = {}
    /\ txn = NoTxn
    /\ processed = {}
    /\ kills = 0
    /\ connects = 0
    /\ firstFetch = -1

(***************************************************************************)
(* Startup: the app.listen callback and connectWithRetry.                  *)
(***************************************************************************)
\* a loop that tries once more than MAX_RETRIES
RetryConditionInclusive(n) == n <= MAX_RETRIES

\* while (retries < MAX_RETRIES)
RetryCondition(n) == n < MAX_RETRIES

\* await pool.connect() resolves: return, then the callback issues the MAX query
ConnectOk ==
    /\ pc = "connectWithRetry"
    /\ pc' = "initQuery"
    /\ connects' = connects + 1
    /\ UNCHANGED <<retries, timer, currentBlockHeight, latestBlockHeight, blockHash,
                   block, client, promises, late, dbVars, processed, kills, firstFetch,
                   averageBlockTime, loopVars, apiVars>>

\* await pool.connect() rejects: retries++, then the RETRY_DELAY sleep
ConnectFail ==
    /\ pc = "connectWithRetry"
    /\ retries' = retries + 1
    /\ connects' = connects + 1
    /\ pc' = "retrySleep"
    /\ timer' = RETRY_DELAY
    /\ UNCHANGED <<currentBlockHeight, latestBlockHeight, blockHash, block, client,
                   promises, late, dbVars, processed, kills, firstFetch,
                   averageBlockTime, loopVars, apiVars>>

\* the sleep ends: the loop condition, then the next attempt or process.exit(1)
RetryWake ==
    /\ pc = "retrySleep"
    /\ timer' = 0
    /\ pc' = IF RetryCondition(retries) THEN "connectWithRetry" ELSE "exited"
    /\ UNCHANGED <<retries, currentBlockHeight, latestBlockHeight, blockHash, block,
                   client, promises, late, dbVars, processed, histVars,
                   averageBlockTime, loopVars, apiVars>>

\* the MAX(height) query resolves: the cursor is set and syncBlocks() is called,
\* which runs up to its first await (isNodeReady)
InitQueryOk ==
    /\ pc = "initQuery"
    /\ currentBlockHeight' = StartupHeight(blocks)
    /\ pc' = "isNodeReady"
    /\ syncCalls' = syncCalls + 1
    /\ syncTimers' = syncTimers
    /\ UNCHANGED <<retries, timer, latestBlockHeight, blockHash, block, client,
                   promises, late, dbVars, processed, histVars,
                   averageBlockTime, apiVars>>

\* a catch that logs the failed MAX(height) query and starts the loop anyway
InitQueryFailStart ==
    /\ pc = "initQuery"
    /\ pc' = "isNodeReady"
    /\ syncCalls' = syncCalls + 1
    /\ syncTimers' = syncTimers
    /\ UNCHANGED <<retries, timer, currentBlockHeight, latestBlockHeight, blockHash,
                   block, client, promises, late, dbVars, processed, histVars,
                   averageBlockTime, apiVars>>

\* the MAX(height) query rejects: catch, process.exit(1)
InitQueryFail ==
    /\ pc = "initQuery"
    /\ pc' = "exited"
    /\ UNCHANGED <<retries, timer, currentBlockHeight, latestBlockHeight, blockHash,
                   block, client, promises, late, dbVars, processed, histVars,
                   averageBlockTime, loopVars, apiVars>>

(***************************************************************************)
(* syncBlocks.                                                             *)
(***************************************************************************)
\* setTimeout(syncBlocks, delay) as the last statement of a pass: the timer is
\* armed and the invocation of syncBlocks returns
Schedule(delay) ==
    /\ pc' = "scheduled"
    /\ timer' = delay
    /\ syncTimers' = syncTimers + 1
    /\ syncCalls' = syncCalls - 1

\* a loop that goes one height past the tip
WhileConditionBeyond(cur, latest) == cur <= latest + 1

\* a loop that stops one height below the tip
WhileConditionStrict(cur, latest) == cur < latest

\* while (currentBlockHeight <= latestBlockHeight)
WhileCondition(cur, latest) == cur <= latest

\* const delay = currentBlockHeight >= latestBlockHeight ? 1000 : 10000
Delay(cur, latest) == IF cur >= latest THEN CaughtUpDelay ELSE BehindDelay

\* the head of the while loop, reached with cursor cur: either the next
\* getBlockHash is issued or the loop ends and the next pass is scheduled
\* (the pass's latestBlockHeight then goes out of scope)
LoopHead(cur, latest) ==
    IF WhileCondition(cur, latest)
    THEN /\ pc' = "getBlockHash"
         /\ timer' = 0
         /\ latestBlockHeight' = latest
         /\ UNCHANGED loopVars
    ELSE /\ Schedule(Delay(cur, latest))
         /\ latestBlockHeight' = 0

\* a catch that gives the failed height up and moves on
InnerCatchSkip ==
    /\ pc' = "backoff"
    /\ timer' = BlockRetryDelay
    /\ currentBlockHeight' = currentBlockHeight + 1
    /\ blockHash' = NoHash
    /\ block' = NoBlock

\* the inner catch: log, then sleep 5 s; the cursor is not touched
InnerCatch ==
    /\ pc' = "backoff"
    /\ timer' = BlockRetryDelay
    /\ currentBlockHeight' = currentBlockHeight
    /\ blockHash' = NoHash
    /\ block' = NoBlock

\* an outer catch that lets the error end the process
OuterCatchExit ==
    /\ pc' = "exited"
    /\ timer' = 0
    /\ UNCHANGED loopVars

\* the outer catch: setTimeout(syncBlocks, 10000)
OuterCatch == Schedule(ErrorDelay)

\* a pass that goes on to the tip query whatever the node answers
IsNodeReadyIgnored(isReady) ==
    /\ pc = "isNodeReady"
    /\ pc' = "getBlockCount"
    /\ timer' = 0
    /\ UNCHANGED <<retries, currentBlockHeight, latestBlockHeight, blockHash, block,
                   client, promises, late, dbVars, processed, histVars,
                   averageBlockTime, loopVars, apiVars>>

\* isNodeReady() resolves
IsNodeReady(isReady) ==
    /\ pc = "isNodeReady"
    /\ IF isReady
       THEN pc' = "getBlockCount" /\ timer' = 0 /\ UNCHANGED loopVars
       ELSE Schedule(NotReadyDelay)
    /\ UNCHANGED <<retries, currentBlockHeight, latestBlockHeight, blockHash, block,
                   client, promises, late, dbVars, processed, histVars,
                   averageBlockTime, apiVars>>

\* isNodeReady() rejects
IsNodeReadyFail ==
    /\ pc = "isNodeReady"
    /\ OuterCatch
    /\ UNCHANGED <<retries, currentBlockHeight, latestBlockHeight, blockHash, block,
                   client, promises, late, dbVars, processed, histVars,
                   averageBlockTime, apiVars>>

\* getBlockCount() resolves with tip
GetBlockCount(tip) ==
    /\ pc = "getBlockCount"
    /\ LoopHead(currentBlockHeight, tip)
    /\ UNCHANGED <<retries, currentBlockHeight, blockHash, block, client, promises,
                   late, dbVars, processed, histVars,
                   averageBlockTime, apiVars>>

\* getBlockCount() rejects
GetBlockCountFail ==
    /\ pc = "getBlockCount"
    /\ OuterCatch
    /\ UNCHANGED <<retries, currentBlockHeight, latestBlockHeight, blockHash, block,
                   client, promises, late, dbVars, processed, histVars,
                   averageBlockTime, apiVars>>

\* the timer of setTimeout(syncBlocks, delay) fires
SyncTimer ==
    /\ pc = "scheduled"
    /\ syncTimers > 0
    /\ syncTimers' = syncTimers - 1
    /\ syncCalls' = syncCalls + 1
    /\ pc' = "isNodeReady"
    /\ timer' = 0
    /\ late' = {[l EXCEPT !.ended = TRUE] : l \in late}
    /\ UNCHANGED <<retries, currentBlockHeight, latestBlockHeight, blockHash, block,
                   client, promises, dbVars, processed, histVars,
                   averageBlockTime, apiVars>>

\* getBlockHash(currentBlockHeight) resolves; getBlock(blockHash) is issued
GetBlockHashOk ==
    /\ pc = "getBlockHash"
    /\ blockHash' = UpHash(currentBlockHeight)
    /\ firstFetch' = IF firstFetch = -1 THEN currentBlockHeight ELSE firstFetch
    /\ pc' = "getBlock"
    /\ UNCHANGED <<retries, timer, currentBlockHeight, latestBlockHeight, block, client,
                   promises, late, dbVars, processed, kills, connects,
                   averageBlockTime, loopVars, apiVars>>

\* getBlockHash(currentBlockHeight) rejects
GetBlockHashFail ==
    /\ pc = "getBlockHash"
    /\ firstFetch' = IF firstFetch = -1 THEN currentBlockHeight ELSE firstFetch
    /\ InnerCatch
    /\ UNCHANGED <<retries, latestBlockHeight, client, promises, late, dbVars,
                   processed, kills, connects,
                   averageBlockTime, loopVars, apiVars>>

\* getBlock(blockHash) resolves; block.height and block.hash are set and
\* storeBlock(block) runs up to its first await (pool.connect)
GetBlockOk ==
    /\ pc = "getBlock"
    /\ block' = [height |-> currentBlockHeight,
                 hash |-> blockHash,
                 timestamp |-> UpBlock(blockHash).timestamp,
                 bitcoin_block_height |-> UpBlock(blockHash).bitcoin_block_height,
                 transactions |-> UpBlock(blockHash).transactions]
    /\ pc' = "poolConnect"
    /\ UNCHANGED <<retries, timer, currentBlockHeight, latestBlockHeight, blockHash,
                   client, promises, late, dbVars, processed, histVars,
                   averageBlockTime, loopVars, apiVars>>

\* getBlock(blockHash) rejects
GetBlockFail ==
    /\ pc = "getBlock"
    /\ InnerCatch
    /\ UNCHANGED <<retries, latestBlockHeight, client, promises, late, dbVars,
                   processed, histVars,
                   averageBlockTime, loopVars, apiVars>>

\* the 5 s sleep of the inner catch ends: back to the head of the while loop
BackoffDone ==
    /\ pc = "backoff"
    /\ LoopHead(currentBlockHeight, latestBlockHeight)
    /\ UNCHANGED <<retries, currentBlockHeight, blockHash, block,
                   client, promises, late, dbVars, processed, histVars,
                   averageBlockTime, apiVars>>

(***************************************************************************)
(* storeBlock.                                                             *)
(***************************************************************************)
Fetching == [state |-> "fetching", row |-> NoRow]

\* the promises of the running call whose getProcessedTransaction is pending,
\* but for promise number settled (0 when no promise has just been rejected)
PendingFetches(settled) ==
    {[txid |-> block.transactions[i], height |-> block.height, conn |-> client,
      ended |-> FALSE] :
        i \in {j \in 1..Len(promises) : j # settled /\ promises[j].state = "fetching"}}

\* catch: ROLLBACK, throw; finally: client.release(); the error reaches the
\* inner catch of syncBlocks. The promises still fetching are not cancelled.
RollbackAndThrow(settled) ==
    /\ txn' = NoTxn
    /\ late' = late \cup PendingFetches(settled)
    /\ promises' = <<>>
    /\ client' = NoClient
    /\ InnerCatch

\* pool.connect() resolves with a client
PoolConnectOk(c) ==
    /\ pc = "poolConnect"
    /\ client' = c
    /\ pc' = "begin"
    /\ UNCHANGED <<retries, timer, currentBlockHeight, latestBlockHeight, blockHash,
                   block, promises, late, dbVars, processed, histVars,
                   averageBlockTime, loopVars, apiVars>>

\* pool.connect() rejects: thrown before the try of storeBlock
PoolConnectFail ==
    /\ pc = "poolConnect"
    /\ InnerCatch
    /\ UNCHANGED <<retries, latestBlockHeight, client, promises, late, dbVars,
                   processed, histVars,
                   averageBlockTime, loopVars, apiVars>>

\* BEGIN
BeginOk ==
    /\ pc = "begin"
    /\ txn' = [status |-> "open", conn |-> client, blocks |-> {}, transactions |-> {}]
    /\ pc' = "insertBlock"
    /\ UNCHANGED <<retries, timer, currentBlockHeight, latestBlockHeight, blockHash,
                   block, client, promises, late, blocks, transactions, processed,
                   histVars,
                   averageBlockTime, loopVars, apiVars>>

BeginFail ==
    /\ pc = "begin"
    /\ RollbackAndThrow(0)
    /\ UNCHANGED <<retries, latestBlockHeight, blocks, transactions, processed,
                   histVars,
                   averageBlockTime, loopVars, apiVars>>

\* INSERT INTO blocks; then the promises are created (each starts its
\* getProcessedTransaction), or COMMIT is issued when the block lists none
InsertBlockOk ==
    /\ pc = "insertBlock"
    /\ txn.status = "open"
    /\ txn' = [txn EXCEPT !.blocks = UpsertBlock(@, BlockRow(block))]
    /\ IF Len(block.transactions) > 0
       THEN /\ promises' = [i \in 1..Len(block.transactions) |-> Fetching]
            /\ pc' = "promiseAll"
       ELSE /\ promises' = <<>>
            /\ pc' = "commit"
    /\ UNCHANGED <<retries, timer, currentBlockHeight, latestBlockHeight, blockHash,
                   block, client, late, blocks, transactions, processed, histVars,
                   averageBlockTime, loopVars, apiVars>>

\* the INSERT INTO blocks rejects (always so in an aborted transaction)
InsertBlockFail ==
    /\ pc = "insertBlock"
    /\ RollbackAndThrow(0)
    /\ UNCHANGED <<retries, latestBlockHeight, blocks, transactions, processed,
                   histVars,
                   averageBlockTime, loopVars, apiVars>>

\* promise i: getProcessedTransaction resolves and its INSERT INTO transactions
\* runs inside the transaction; with the last one Promise.all resolves and
\* COMMIT is issued
TransactionStored(i) ==
    LET row == TransactionRow(block.transactions[i], block.height,
                              UpTx(block.transactions[i], processed))
        done == [promises EXCEPT ![i] = [state |-> "stored", row |-> row]]
    IN /\ pc = "promiseAll"
       /\ promises[i].state = "fetching"
       /\ txn.status = "open"
       /\ ForeignKeyOk(row, VisibleBlocks)
       /\ txn' = [txn EXCEPT !.transactions = UpsertTransaction(@, row)]
       /\ promises' = done
       /\ pc' = IF \A j \in 1..Len(done) : done[j].state = "stored"
                THEN "commit" ELSE "promiseAll"
       /\ UNCHANGED <<retries, timer, currentBlockHeight, latestBlockHeight,
                      blockHash, block, client, late, blocks, transactions,
                      processed, histVars,
                   averageBlockTime, loopVars, apiVars>>

\* promise i rejects (its fetch or its INSERT): Promise.all rejects at once
TransactionFail(i) ==
    /\ pc = "promiseAll"
    /\ promises[i].state = "fetching"
    /\ RollbackAndThrow(i)
    /\ UNCHANGED <<retries, latestBlockHeight, blocks, transactions, processed,
                   histVars,
                   averageBlockTime, loopVars, apiVars>>

\* the server executes COMMIT; in an aborted transaction COMMIT rolls back and
\* still answers without an error
Commit ==
    /\ pc = "commit"
    /\ blocks' = IF txn.status = "open" THEN CommitBlocks(blocks, txn.blocks)
                 ELSE blocks
    /\ transactions' = IF txn.status = "open"
                       THEN CommitTransactions(transactions, txn.transactions)
                       ELSE transactions
    /\ txn' = NoTxn
    /\ pc' = "commitReturn"
    /\ UNCHANGED <<retries, timer, currentBlockHeight, latestBlockHeight, blockHash,
                   block, client, promises, late, processed, histVars,
                   averageBlockTime, loopVars, apiVars>>

\* COMMIT rejects and nothing was committed
CommitFail ==
    /\ pc = "commit"
    /\ RollbackAndThrow(0)
    /\ UNCHANGED <<retries, latestBlockHeight, blocks, transactions, processed,
                   histVars,
                   averageBlockTime, loopVars, apiVars>>

\* the answer to an executed COMMIT is lost (the connection breaks): the await
\* rejects although the transaction is committed
CommitAnswerLost ==
    /\ pc = "commitReturn"
    /\ RollbackAndThrow(0)
    /\ UNCHANGED <<retries, latestBlockHeight, blocks, transactions, processed,
                   histVars,
                   averageBlockTime, loopVars, apiVars>>

\* a cursor that advances by two
AdvanceTwo(cur) == cur + 2

\* the cursor after a stored block: currentBlockHeight++
Advance(cur) == cur + 1

\* COMMIT resolves: release, storeBlock returns, currentBlockHeight++, the
\* average is updated with the time the block took, and the loop goes to its head
StoreBlockReturn(blockTime) ==
    /\ pc = "commitReturn"
    /\ averageBlockTime' = Ema(averageBlockTime, blockTime)
    /\ currentBlockHeight' = Advance(currentBlockHeight)
    /\ LoopHead(Advance(currentBlockHeight), latestBlockHeight)
    /\ client' = NoClient
    /\ promises' = <<>>
    /\ blockHash' = NoHash
    /\ block' = NoBlock
    /\ UNCHANGED <<retries, late, dbVars, processed, histVars, apiVars>>

(***************************************************************************)
(* The promises a failed storeBlock left behind.                           *)
(***************************************************************************)
\* the fetch of a left-behind promise resolves and its INSERT runs on the
\* client of its call: inside the transaction that is open on that client,
\* or else as a statement of its own
LateWrite(l) ==
    LET row == TransactionRow(l.txid, l.height, UpTx(l.txid, processed))
    IN /\ l \in late
       /\ late' = late \ {l}
       /\ IF txn.status # "none" /\ txn.conn = l.conn
          THEN /\ txn' = IF txn.status = "open" /\ ForeignKeyOk(row, VisibleBlocks)
                         THEN [txn EXCEPT !.transactions = UpsertTransaction(@, row)]
                         ELSE [txn EXCEPT !.status = "aborted"]
               /\ UNCHANGED <<blocks, transactions>>
          ELSE \* it waits for a transaction that holds the row of its txid
               /\ \A w \in txn.transactions : w.txid # row.txid
               /\ transactions' = IF ForeignKeyOk(row, blocks)
                                  THEN UpsertTransaction(transactions, row)
                                  ELSE transactions
               /\ UNCHANGED <<blocks, txn>>
       /\ UNCHANGED <<pc, retries, timer, currentBlockHeight, latestBlockHeight,
                      blockHash, block, client, promises, processed, histVars,
                   averageBlockTime, loopVars, apiVars>>

\* the fetch of a left-behind promise rejects
LateFail(l) ==
    /\ l \in late
    /\ late' = late \ {l}
    /\ UNCHANGED <<pc, retries, timer, currentBlockHeight, latestBlockHeight,
                   blockHash, block, client, promises, dbVars, processed, histVars,
                   averageBlockTime, loopVars, apiVars>>

(***************************************************************************)
(* Strings of the Query API: request parameters and what is done to them.  *)
(* A text is the string of a hash or transaction id (64 hexadecimal        *)
(* characters, here beginning with a letter), or a short string given by   *)
(* its characters.                                                         *)
(***************************************************************************)
NoId == <<"none", 0>>

\* a 64-character string that is no stored hash and no stored txid
UnknownId == <<"hash", -2>>

IdText(id) == [kind |-> "id", id |-> id, chars |-> <<>>]

CharText(chars) == [kind |-> "chars", id |-> NoId, chars |-> chars]

NoText == CharText(<<>>)

\* column = $1 for a TEXT column holding a hash or a txid
TextEq(column, text) == text.kind = "id" /\ text.id = column

DigitChars == <<"0", "1", "2", "3", "4", "5", "6", "7", "8", "9">>

IsDigit(c) == \E d \in 1..Len(DigitChars) : DigitChars[d] = c

DigitValue(c) == (CHOOSE d \in 1..Len(DigitChars) : DigitChars[d] = c) - 1

\* the decimal numeral of a natural number
RECURSIVE Decimal(_)
Decimal(n) ==
    IF n < 10 THEN <<DigitChars[n + 1]>>
    ELSE Append(Decimal(n \div 10), DigitChars[(n % 10) + 1])

RECURSIVE SkipSpaces(_)
SkipSpaces(chars) ==
    IF Len(chars) > 0 /\ Head(chars) = " " THEN SkipSpaces(Tail(chars)) ELSE chars

\* the longest prefix of digits
RECURSIVE DigitPrefix(_)
DigitPrefix(chars) ==
    IF Len(chars) > 0 /\ IsDigit(Head(chars))
    THEN <<Head(chars)>> \o DigitPrefix(Tail(chars))
    ELSE <<>>

RECURSIVE SkipZeros(_)
SkipZeros(digits) ==
    IF Len(digits) > 1 /\ Head(digits) = "0" THEN SkipZeros(Tail(digits)) ELSE digits

\* a number as its sign and its digits without leading zeros; NaN has none
NaN == [nan |-> TRUE, negative |-> FALSE, digits |-> <<>>]

Number(negative, digits) ==
    [nan |-> FALSE, negative |-> negative, digits |-> SkipZeros(digits)]

\* parseInt(term): leading white space is skipped, then an optional sign and
\* the longest run of digits are taken; what follows the digits is ignored
ParseInt(text) ==
    IF text.kind = "id" THEN NaN
    ELSE LET s == SkipSpaces(text.chars)
             signed == Len(s) > 0 /\ Head(s) \in {"-", "+"}
             digits == DigitPrefix(IF signed THEN Tail(s) ELSE s)
         IN IF digits = <<>> THEN NaN
            ELSE Number(signed /\ Head(s) = "-", digits)

\* 2147483647, the largest value of the column type INTEGER
Int4MaxDigits == <<"2", "1", "4", "7", "4", "8", "3", "6", "4", "7">>

\* digits a > digits b, both without leading zeros
RECURSIVE DigitsGreater(_, _)
DigitsGreater(a, b) ==
    IF Len(a) # Len(b) THEN Len(a) > Len(b)
    ELSE IF a = <<>> THEN FALSE
    ELSE IF Head(a) # Head(b) THEN DigitValue(Head(a)) > DigitValue(Head(b))
    ELSE DigitsGreater(Tail(a), Tail(b))

\* the statement fails: the number is not a value of type INTEGER
OutOfInt4(n) == DigitsGreater(n.digits, Int4MaxDigits)

\* the rows of blocks whose height is the number n (of type INTEGER)
DigitsOf(h) == IF h < 0 THEN <<>> ELSE Decimal(h)

HeightIs(row, n) ==
    /\ ~n.nan
    /\ (~n.negative \/ n.digits = <<"0">>)
    /\ n.digits = DigitsOf(row.height)

\* the server reads a text parameter as an INTEGER: white space around an
\* optional sign and digits, nothing else
PgInt4In(text) ==
    IF text.kind = "id" THEN NaN
    ELSE LET s == SkipSpaces(text.chars)
             signed == Len(s) > 0 /\ Head(s) \in {"-", "+"}
             body == IF signed THEN Tail(s) ELSE s
             digits == DigitPrefix(body)
             rest == SubSeq(body, Len(digits) + 1, Len(body))
         IN IF digits = <<>> \/ SkipSpaces(rest) # <<>> THEN NaN
            ELSE Number(signed /\ Head(s) = "-", digits)

(***************************************************************************)
(* The Query API. A request k is followed from its arrival to its          *)
(* response: req[k].stage is the await at which its handler is suspended,  *)
(* req[k].local holds the handler's local variables, req[k].sent counts    *)
(* the responses sent for it.                                              *)
(***************************************************************************)
Routes == {"root", "blocks", "blockByHash", "blockByHeight", "transactions",
           "transaction", "syncStatus", "networkStats", "search"}

RoutesOf(k) == IF k = 1 THEN Routes ELSE {"transaction"}

\* the parameters tried for each route
HashParams == {IdText(UpHash(h)) : h \in Heights} \cup {IdText(UnknownId)}

HeightParams ==
    {CharText(Decimal(h)) : h \in Heights}
        \cup {CharText(<<" ", "1">>), CharText(<<"1", "a">>), CharText(<<"a">>)}

TxidParams == {IdText(t) : t \in Txids} \cup {IdText(UnknownId)}

TenNines == <<"9", "9", "9", "9", "9", "9", "9", "9", "9", "9">>

Terms ==
    {IdText(t) : t \in Txids} \cup {IdText(UpHash(0)), IdText(UnknownId)}
        \cup {CharText(Decimal(h)) : h \in Heights}
        \cup {CharText(<<"1", "a">>), CharText(<<"a">>), CharText(TenNines)}

Params(route) ==
    CASE route = "blockByHash" -> HashParams
      [] route = "blockByHeight" -> HeightParams
      [] route = "transaction" -> TxidParams
      [] route = "search" -> Terms
      [] OTHER -> {NoText}

\* the first await of each handler
FirstStage(route) ==
    CASE route = "root" -> "done"
      [] route = "syncStatus" -> "rpc"
      [] OTHER -> "q1"

\* a handler that resets the progress state of the sync engine
HandlerFrameLeak ==
    /\ averageBlockTime' = NoAverage
    /\ UNCHANGED <<procVars, loopVars, dbVars, processed, histVars>>

\* the handlers assign to no variable of the module and write nothing to the
\* store
HandlerFrame ==
    UNCHANGED <<procVars, averageBlockTime, loopVars, dbVars, processed, histVars>>

\* res.json(body) / res.status(status).json(body)
Respond(r, status, body) ==
    [r EXCEPT !.stage = "done", !.sent = @ + 1, !.status = status, !.body = body]

NotFound(message) == [error |-> message]

\* res.status(500).json({ error: 'Internal server error' })
InternalError(r) == [error |-> "Internal server error"]

\* the handler of request k sends a response
Reply(k, status, body) == req' = [req EXCEPT ![k] = Respond(req[k], status, body)]

\* a request arrives; its handler runs up to its first await
Receive(k, route, param) ==
    LET r == [route |-> route, param |-> param, stage |-> FirstStage(route),
              local |-> <<>>, sent |-> 0, status |-> 0, body |-> <<>>]
    IN /\ req[k].stage \in {"idle", "done"}
       /\ req' = [req EXCEPT ![k] =
                    IF route = "root"
                    THEN Respond(r, 200, [message |-> "Arch Indexer API is running"])
                    ELSE r]
       /\ HandlerFrame

\* a pending pool.query() rejects: the catch of the handler
StorageReadThrows(k) ==
    /\ req[k].stage \in {"q1", "q2", "q3"}
    /\ Reply(k, 500, InternalError(req[k]))
    /\ HandlerFrame

\* a pending archClient.getBlockCount() rejects: the catch of the handler
RpcRejects(k) ==
    /\ req[k].stage = "rpc"
    /\ Reply(k, 500, InternalError(req[k]))
    /\ HandlerFrame

\* ORDER BY height DESC
RECURSIVE OrderByHeightDesc(_)
OrderByHeightDesc(rows) ==
    IF rows = {} THEN <<>>
    ELSE LET top == CHOOSE r \in rows : \A o \in rows : o.height <= r.height
         IN <<top>> \o OrderByHeightDesc(rows \ {top})

\* LIMIT n
Limit(rows, n) == SubSeq(rows, 1, IF Len(rows) < n THEN Len(rows) ELSE n)

BlocksLimit == 200
TransactionsLimit == 20

\* the orders in which the server may return a set of rows
Orders(rows) ==
    {f \in [1..Cardinality(rows) -> rows] :
        \A i, j \in 1..Cardinality(rows) : i # j => f[i] # f[j]}

\* GET /api/blocks
BlocksRead(k) ==
    /\ req[k].route = "blocks" /\ req[k].stage = "q1"
    /\ Reply(k, 200, Limit(OrderByHeightDesc(blocks), BlocksLimit))
    /\ HandlerFrame

\* GET /api/transactions: ORDER BY block_height DESC leaves the order of the
\* rows of one block open
TransactionsRead(k) ==
    /\ req[k].route = "transactions" /\ req[k].stage = "q1"
    /\ \E rows \in Orders(transactions) :
          /\ \A i, j \in 1..Len(rows) :
                i < j => rows[i].block_height >= rows[j].block_height
          /\ Reply(k, 200, Limit(rows, TransactionsLimit))
    /\ HandlerFrame

\* GET /api/transactions/:txid
TransactionRead(k) ==
    /\ req[k].route = "transaction" /\ req[k].stage = "q1"
    /\ LET rows == {r \in transactions : TextEq(r.txid, req[k].param)}
       IN IF rows # {}
          THEN \E row \in rows : Reply(k, 200, row)
          ELSE Reply(k, 404, NotFound("Transaction not found"))
    /\ HandlerFrame

\* SQL NULL, JSON null
Null == <<"null">>

\* a lookup of the height above instead of the height below
NextBlockHash(table, b) ==
    IF \E p \in table : p.height = b.height + 1
    THEN (CHOOSE p \in table : p.height = b.height + 1).hash
    ELSE Null

\* (SELECT hash FROM blocks WHERE height = b.height - 1)
PreviousBlockHash(table, b) ==
    IF \E p \in table : p.height = b.height - 1
    THEN (CHOOSE p \in table : p.height = b.height - 1).hash
    ELSE Null

\* SELECT b.*, (...) AS previous_block_hash FROM blocks b
BlockWithPrevious(table, b) ==
    [height |-> b.height, hash |-> b.hash, timestamp |-> b.timestamp,
     bitcoin_block_height |-> b.bitcoin_block_height,
     previous_block_hash |-> PreviousBlockHash(table, b)]

\* WHERE b.hash = $1 / WHERE b.height = $1
BlockMatches(route, b, param) ==
    IF route = "blockByHash" THEN TextEq(b.hash, param)
    ELSE HeightIs(b, PgInt4In(param))

\* the statement with the parameter of the request cannot be executed
BadParam(route, param) ==
    /\ route = "blockByHeight"
    /\ PgInt4In(param).nan \/ OutOfInt4(PgInt4In(param))

\* GET /api/blocks/:blockhash and GET /api/blocks/height/:height, first query
BlockDetailBlock(k) ==
    /\ req[k].route \in {"blockByHash", "blockByHeight"} /\ req[k].stage = "q1"
    /\ IF BadParam(req[k].route, req[k].param)
       THEN Reply(k, 500, InternalError(req[k]))
       ELSE LET rows == {b \in blocks : BlockMatches(req[k].route, b, req[k].param)}
            IN IF rows = {}
               THEN Reply(k, 404, NotFound("Block not found"))
               ELSE \E b \in rows :
                      req' = [req EXCEPT ![k].stage = "q2",
                                         ![k].local = BlockWithPrevious(blocks, b)]
    /\ HandlerFrame

\* WHERE block_height = $1 with block.height (by hash) or the parameter (by height)
InBlock(route, r, found, param) ==
    IF route = "blockByHash" THEN r.block_height = found.height
    ELSE HeightIs([height |-> r.block_height], PgInt4In(param))

\* second query: the txids of the block, in the order the server returns them
BlockDetailTransactions(k) ==
    /\ req[k].route \in {"blockByHash", "blockByHeight"} /\ req[k].stage = "q2"
    /\ LET txids == {r.txid : r \in {t \in transactions :
                                         InBlock(req[k].route, t, req[k].local, req[k].param)}}
       IN \E list \in Orders(txids) :
             Reply(k, 200,
                       [height |-> req[k].local.height, hash |-> req[k].local.hash,
                        timestamp |-> req[k].local.timestamp,
                        bitcoin_block_height |-> req[k].local.bitcoin_block_height,
                        previous_block_hash |-> req[k].local.previous_block_hash,
                        transactions |-> list])
    /\ HandlerFrame

\* (n / d).toFixed(2) for n >= 0, d > 0, in hundredths
Fixed2(n, d) == (200 * n + d) \div (2 * d)

\* ((currentBlockHeight / latestBlockHeight) * 100).toFixed(2)
Percentage(cur, latest) ==
    IF latest = 0
    THEN [text |-> IF cur = 0 THEN "NaN" ELSE "Infinity", hundredths |-> 0]
    ELSE [text |-> "", hundredths |-> Fixed2(cur * 100, latest)]

\* the % of JavaScript: the sign of the result is the sign of a
JsRem(a, b) == IF a >= 0 THEN a % b ELSE -((-a) % b)

\* formatTime(n / d)
FormatTime(n, d) ==
    [hours |-> n \div (3600 * d),
     minutes |-> JsRem(n, 3600 * d) \div (60 * d),
     seconds |-> JsRem(n, 60 * d) \div d]

\* let estimatedTimeToCompletion = 'N/A'; if (averageBlockTime > 0) ...
Estimate(cur, latest, avg) ==
    IF avg.num > 0
    THEN FormatTime((latest - cur) * avg.num, Pow10(avg.exp) * 1000)
    ELSE [hours |-> -1, minutes |-> -1, seconds |-> -1, text |-> "N/A"]

\* Date.now() - syncStartTime, in milliseconds
ElapsedTimes == {0, 3725000}

\* isSynced: currentBlockHeight >= latestBlockHeight
IsSynced(cur, latest) == cur >= latest

\* GET /api/sync-status: getBlockCount() resolves with tip
SyncStatusTip(k, tip, elapsed) ==
    /\ req[k].route = "syncStatus" /\ req[k].stage = "rpc"
    /\ Reply(k, 200,
                 [currentBlockHeight |-> currentBlockHeight,
                  latestBlockHeight |-> tip,
                  percentageComplete |-> Percentage(currentBlockHeight, tip),
                  isSynced |-> IsSynced(currentBlockHeight, tip),
                  estimatedTimeToCompletion |->
                      Estimate(currentBlockHeight, tip, averageBlockTime),
                  elapsedTime |-> FormatTime(elapsed, 1000),
                  averageBlockTime |->
                      Fixed2(averageBlockTime.num, Pow10(averageBlockTime.exp) * 1000)])
    /\ HandlerFrame

\* GET /api/network-stats, first query: COUNT(*) of transactions
NetworkStatsCount(k) ==
    /\ req[k].route = "networkStats" /\ req[k].stage = "q1"
    /\ req' = [req EXCEPT ![k].stage = "rpc",
                          ![k].local = [totalTransactions |-> Cardinality(transactions)]]
    /\ HandlerFrame

\* getBlockCount() resolves with tip; the query of the last minute is issued
NetworkStatsTip(k, tip) ==
    /\ req[k].route = "networkStats" /\ req[k].stage = "rpc"
    /\ req' = [req EXCEPT ![k].stage = "q2",
                          ![k].local = [totalTransactions |-> req[k].local.totalTransactions,
                                     latestBlockHeight |-> tip]]
    /\ HandlerFrame

\* MIN / MAX of a BIGINT column: NULL over no rows, else the value as a string
MinTimestamp(stamps) ==
    IF stamps = {} THEN [null |-> TRUE, digits |-> <<>>]
    ELSE [null |-> FALSE,
          digits |-> Decimal(CHOOSE m \in stamps : \A o \in stamps : m <= o)]

MaxTimestamp(stamps) ==
    IF stamps = {} THEN [null |-> TRUE, digits |-> <<>>]
    ELSE [null |-> FALSE,
          digits |-> Decimal(CHOOSE m \in stamps : \A o \in stamps : m >= o)]

\* new Date(value).getTime(): 0 for null; the timestamps of the chain are
\* epoch values of ten digits or more, which arrive as strings of digits and
\* make an Invalid Date
DateGetTime(value) ==
    IF value.null THEN [nan |-> FALSE, ms |-> 0] ELSE [nan |-> TRUE, ms |-> 0]

\* count / span without the test of the span: NaN or Infinity (here -1) when
\* the span is 0 or not a number
RateUnguarded(count, start, end) ==
    LET from == DateGetTime(start)
        to == DateGetTime(end)
    IN IF ~from.nan /\ ~to.nan /\ to.ms - from.ms # 0
       THEN Fixed2(count * 1000, to.ms - from.ms)
       ELSE -1

\* span > 0 ? count / span : 0, then toFixed(2); a comparison with NaN is false
Rate(count, start, end) ==
    LET from == DateGetTime(start)
        to == DateGetTime(end)
    IN IF ~from.nan /\ ~to.nan /\ to.ms - from.ms > 0
       THEN Fixed2(count * 1000, to.ms - from.ms)
       ELSE 0

\* const oneMinuteAgo = Date.now() - 60000
OneMinute == 60000

\* Date.now() when the handler computes oneMinuteAgo
Nows == {1000 + OneMinute, 1001 + OneMinute}

\* FROM transactions t JOIN blocks b ON t.block_height = b.height
\* WHERE b.timestamp > $1
RecentRows(now) ==
    {<<t, b>> \in transactions \X blocks :
        t.block_height = b.height /\ b.timestamp > now - OneMinute}

\* second query: the transactions of the last minute
NetworkStatsRecent(k, now) ==
    /\ req[k].route = "networkStats" /\ req[k].stage = "q2"
    /\ LET rows == RecentRows(now)
           stamps == {row[2].timestamp : row \in rows}
       IN req' = [req EXCEPT
                    ![k].stage = "q3",
                    ![k].local = [totalTransactions |-> req[k].local.totalTransactions,
                               latestBlockHeight |-> req[k].local.latestBlockHeight,
                               tps |-> Rate(Cardinality(rows), MinTimestamp(stamps),
                                            MaxTimestamp(stamps))]]
    /\ HandlerFrame

\* WHERE b.height > (SELECT MAX(height) - 100 FROM blocks)
LastBlocks == 100

\* FROM blocks b LEFT JOIN transactions t ON b.height = t.block_height: a
\* block without transactions gives one row with a NULL txid
RecentData ==
    LET recent == {b \in blocks : b.height > MaxHeight(blocks) - LastBlocks}
    IN {<<b, t.txid>> : <<b, t>> \in {<<b, t>> \in recent \X transactions :
                                        b.height = t.block_height}}
          \cup {<<b, Null>> : b \in {b \in recent :
                                      \A t \in transactions : t.block_height # b.height}}

\* third query and the response; last100BlocksTxCount is the COUNT(*) of the
\* rows of recent_data
NetworkStatsLast100(k) ==
    /\ req[k].route = "networkStats" /\ req[k].stage = "q3"
    /\ LET stamps == {row[1].timestamp : row \in RecentData}
           count == Cardinality(RecentData)
           locals == [totalTransactions |-> req[k].local.totalTransactions,
                      latestBlockHeight |-> req[k].local.latestBlockHeight,
                      tps |-> req[k].local.tps,
                      last100BlocksTxCount |-> count]
       IN req' = [req EXCEPT ![k] =
                    Respond([req[k] EXCEPT !.local = locals], 200,
                            [totalTransactions |-> req[k].local.totalTransactions,
                             blockHeight |-> req[k].local.latestBlockHeight,
                             slotHeight |-> req[k].local.latestBlockHeight,
                             tps |-> req[k].local.tps,
                             trueTps |-> Rate(count, MinTimestamp(stamps),
                                              MaxTimestamp(stamps))])]
    /\ HandlerFrame

\* res.json({ type, data })
Found(type, row) == [type |-> type, data |-> row]

\* GET /api/search, first query: SELECT * FROM transactions WHERE txid = $1
SearchTransaction(k) ==
    /\ req[k].route = "search" /\ req[k].stage = "q1"
    /\ LET rows == {r \in transactions : TextEq(r.txid, req[k].param)}
       IN IF rows # {}
          THEN \E row \in rows : Reply(k, 200, Found("transaction", row))
          ELSE req' = [req EXCEPT ![k].stage = "q2"]
    /\ HandlerFrame

\* second query: SELECT * FROM blocks WHERE hash = $1; then parseInt(term)
\* and, unless it is NaN, the third query is issued
SearchHash(k) ==
    /\ req[k].route = "search" /\ req[k].stage = "q2"
    /\ LET rows == {b \in blocks : TextEq(b.hash, req[k].param)}
       IN IF rows # {}
          THEN \E row \in rows : Reply(k, 200, Found("block", row))
          ELSE IF ~ParseInt(req[k].param).nan
          THEN req' = [req EXCEPT ![k].stage = "q3", ![k].local = ParseInt(req[k].param)]
          ELSE Reply(k, 404,
                              NotFound("No matching transaction or block found"))
    /\ HandlerFrame

\* third query: SELECT * FROM blocks WHERE height = $1
SearchHeight(k) ==
    /\ req[k].route = "search" /\ req[k].stage = "q3"
    /\ IF OutOfInt4(req[k].local)
       THEN Reply(k, 500, InternalError(req[k]))
       ELSE LET rows == {b \in blocks : HeightIs(b, req[k].local)}
            IN IF rows # {}
               THEN \E row \in rows : Reply(k, 200, Found("block", row))
               ELSE Reply(k, 404,
                                   NotFound("No matching transaction or block found"))
    /\ HandlerFrame

\* the steps of the request handlers
Api ==
    \/ \E k \in Requests : \E route \in RoutesOf(k) : \E param \in Params(route) :
          Receive(k, route, param)
    \/ \E k \in Requests : StorageReadThrows(k)
    \/ \E k \in Requests : RpcRejects(k)
    \/ \E k \in Requests : BlocksRead(k)
    \/ \E k \in Requests : TransactionsRead(k)
    \/ \E k \in Requests : TransactionRead(k)
    \/ \E k \in Requests : BlockDetailBlock(k)
    \/ \E k \in Requests : BlockDetailTransactions(k)
    \/ \E k \in Requests : \E tip \in Heights : \E elapsed \in ElapsedTimes :
          SyncStatusTip(k, tip, elapsed)
    \/ \E k \in Requests : NetworkStatsCount(k)
    \/ \E k \in Requests : \E tip \in Heights : NetworkStatsTip(k, tip)
    \/ \E k \in Requests : \E now \in Nows : NetworkStatsRecent(k, now)
    \/ \E k \in Requests : NetworkStatsLast100(k)
    \/ \E k \in Requests : SearchTransaction(k)
    \/ \E k \in Requests : SearchHash(k)
    \/ \E k \in Requests : SearchHeight(k)

(***************************************************************************)
(* The environment.                                                        *)
(***************************************************************************)
\* the node finishes processing a transaction
UpstreamProcessed(t) ==
    /\ t \notin processed
    /\ processed' = processed \cup {t}
    /\ UNCHANGED <<procVars, dbVars, histVars,
                   averageBlockTime, loopVars, apiVars>>

\* the process is killed and started again: the module state is fresh, the
\* server rolls back the transaction of the closed connection
Kill ==
    /\ kills < MaxKills
    /\ kills' = kills + 1
    /\ pc' = "connectWithRetry"
    /\ retries' = 0
    /\ timer' = 0
    /\ currentBlockHeight' = 0
    /\ latestBlockHeight' = 0
    /\ blockHash' = NoHash
    /\ block' = NoBlock
    /\ client' = NoClient
    /\ promises' = <<>>
    /\ late' = {}
    /\ averageBlockTime' = NoAverage
    /\ syncCalls' = 0
    /\ syncTimers' = 0
    /\ txn' = NoTxn
    /\ connects' = 0
    /\ firstFetch' = -1
    /\ UNCHANGED <<blocks, transactions, processed, apiVars>>

\* the steps of the sync process in which a call succeeds or a timer of a
\* pass fires
Progress ==
    \/ ConnectOk
    \/ InitQueryOk
    \/ IsNodeReady(TRUE)
    \/ \E tip \in Heights : GetBlockCount(tip)
    \/ SyncTimer
    \/ GetBlockHashOk
    \/ GetBlockOk
    \/ \E c \in Clients : PoolConnectOk(c)
    \/ BeginOk
    \/ InsertBlockOk
    \/ \E i \in 1..Len(promises) : TransactionStored(i)
    \/ Commit
    \/ \E blockTime \in BlockTimes : StoreBlockReturn(blockTime)

\* the node finishes processing some transaction
Upstream == \E t \in Txids : UpstreamProcessed(t)

\* the steps in which a call fails or the node is not ready
Faulty ==
    \/ ConnectFail
    \/ InitQueryFail
    \/ IsNodeReady(FALSE)
    \/ IsNodeReadyFail
    \/ GetBlockCountFail
    \/ GetBlockHashFail
    \/ GetBlockFail
    \/ PoolConnectFail
    \/ BeginFail
    \/ InsertBlockFail
    \/ \E i \in 1..Len(promises) : TransactionFail(i)
    \/ CommitFail
    \/ CommitAnswerLost

\* what follows a failed call: the sleeps that end, the promises left behind
Recovery ==
    \/ RetryWake
    \/ BackoffDone
    \/ \E l \in late : LateWrite(l)
    \/ \E l \in late : LateFail(l)

Run == Progress \/ Faulty \/ Recovery

Next == Run \/ Upstream \/ Kill

Spec == Init /\ [][Next]_vars

\* the steps of the sync process itself: the event loop runs every callback
\* that is due, and every call that was issued returns
SyncStep ==
    \/ ConnectOk \/ ConnectFail \/ RetryWake \/ InitQueryOk \/ InitQueryFail
    \/ \E isReady \in BOOLEAN : IsNodeReady(isReady)
    \/ IsNodeReadyFail
    \/ \E tip \in Heights : GetBlockCount(tip)
    \/ GetBlockCountFail \/ SyncTimer
    \/ GetBlockHashOk \/ GetBlockHashFail \/ GetBlockOk \/ GetBlockFail \/ BackoffDone
    \/ \E c \in Clients : PoolConnectOk(c)
    \/ PoolConnectFail \/ BeginOk \/ BeginFail \/ InsertBlockOk \/ InsertBlockFail
    \/ \E i \in 1..Len(promises) : TransactionStored(i)
    \/ \E i \in 1..Len(promises) : TransactionFail(i)
    \/ Commit \/ CommitFail \/ CommitAnswerLost
    \/ \E blockTime \in BlockTimes : StoreBlockReturn(blockTime)

\* a run in which the node is ready and no call fails
ColdSpec == Init /\ [][Progress \/ Upstream]_vars

\* the Query API next to a sync process whose calls succeed
ApiSpec == Init /\ [][Api \/ Progress]_vars

\* Date.now() - blockStartTime of the blocks stored in the runs of EmaSpec: a
\* block stored within the same millisecond, and two slower ones
Samples == {0, 100, 200}

\* a block is stored and its time enters the average
Sampled == \E blockTime \in Samples : StoreBlockReturn(blockTime)

\* one run of the process, without a kill, with blocks of different latencies
EmaSpec == Init /\ [][Run \/ Sampled]_vars

\* the block requests of ReadSpec: the two lowest heights, by height and by hash
BlockParams(route) ==
    IF route = "blockByHash" THEN {IdText(UpHash(h)) : h \in {0, 1}}
    ELSE {CharText(Decimal(h)) : h \in {0, 1}}

\* the steps of a request for one block
BlockApi ==
    \/ \E route \in {"blockByHash", "blockByHeight"} : \E param \in BlockParams(route) :
          Receive(1, route, param)
    \/ BlockDetailBlock(1)
    \/ BlockDetailTransactions(1)

\* requests for one block next to a sync process whose calls may fail
ReadSpec == Init /\ [][Run \/ BlockApi]_vars

\* one run of the process, without a kill, under a fair event loop
LiveSpec == Init /\ [][Run]_vars /\ WF_vars(SyncStep)

(***************************************************************************)
(* Properties.                                                             *)
(***************************************************************************)
\* the states in which the sync loop is running (startup is over)
SyncPcs == {"isNodeReady", "getBlockCount", "scheduled", "getBlockHash", "getBlock",
            "backoff", "poolConnect", "begin", "insertBlock", "promiseAll", "commit",
            "commitReturn"}

PersistedHeights == {r.height : r \in blocks}

\* C1 as stated. Gap-freedom: once the cursor is initialised, and whenever no
\* COMMIT is in flight, the persisted heights are exactly [0, cursor).
C1_GapFreeExact ==
    (pc \in SyncPcs /\ pc # "commitReturn")
        => PersistedHeights = 0..(currentBlockHeight - 1)

\* C1 amended. The persisted heights are always a contiguous range that starts
\* at 0, and while the sync loop runs that range is [0, cursor) or [0, cursor]:
\* no height is ever skipped.
C1_GapFree ==
    /\ \E n \in 0..(MaxTip + 1) : PersistedHeights = 0..(n - 1)
    /\ pc \in SyncPcs
        => \/ PersistedHeights = 0..(currentBlockHeight - 1)
           \/ PersistedHeights = 0..currentBlockHeight

\* a restarted process whose cursor is itself a persisted height
C1_Witness ==
    /\ kills = 1
    /\ pc = "getBlock"
    /\ currentBlockHeight = 1
    /\ PersistedHeights = {0, 1}

\* C2. Retry without advancing: a step into the backoff of the inner catch
\* leaves the cursor where it is, the height fetched is always the cursor, and
\* while a height is being fetched or stored every height below it is already
\* persisted and none above it is.
C2_RetryWithoutAdvancing ==
    [][ /\ pc' = "backoff" => currentBlockHeight' = currentBlockHeight
        /\ pc' = "getBlock" => blockHash' = UpHash(currentBlockHeight')
        /\ block' # NoBlock => block'.height = currentBlockHeight'
        /\ pc' \in {"getBlockHash", "getBlock", "backoff", "poolConnect", "begin",
                    "insertBlock", "promiseAll", "commit", "commitReturn"}
             => /\ \A g \in 0..(currentBlockHeight' - 1) : g \in {r.height : r \in blocks'}
                /\ \A r \in blocks' \cup txn'.blocks : r.height <= currentBlockHeight'
      ]_vars

\* height 2 has failed and is about to be retried; heights 0 and 1 are stored
C2_Witness ==
    /\ pc = "backoff"
    /\ currentBlockHeight = 2
    /\ latestBlockHeight = 2
    /\ PersistedHeights = {0, 1}

\* the rows the running storeBlock call has written itself
OwnTransactionRows ==
    {promises[i].row : i \in {j \in 1..Len(promises) : promises[j].state = "stored"}}

\* C3 as stated. Block atomicity: committed Storage changes only when the
\* COMMIT of a storeBlock call is executed, and then by exactly that call's
\* writes: its block row and one row for every transaction of the block.
C3_BlockAtomicity ==
    [][ (blocks' # blocks \/ transactions' # transactions)
          => /\ pc = "commit"
             /\ Len(promises) = Len(block.transactions)
             /\ blocks' = UpsertBlock(blocks, BlockRow(block))
             /\ transactions' = CommitTransactions(transactions, OwnTransactionRows)
      ]_vars

\* what an uninterrupted run stores for heights 0..n: the block rows of the
\* chain and one row for each of their transactions, stamped with its height,
\* with the status the node reported when the row was fetched
StatusOf(t) == IF t \in processed THEN {0, 1} ELSE {0}

MirrorBlockRow(h) ==
    [height |-> h, hash |-> UpHash(h), timestamp |-> UpBlock(UpHash(h)).timestamp,
     bitcoin_block_height |-> UpBlock(UpHash(h)).bitcoin_block_height]

MirrorTxids(n) ==
    UNION {{UpTransactions(UpHash(h))[i] : i \in 1..TxCount(h)} : h \in 0..n}

IsMirror(n) ==
    /\ blocks = {MirrorBlockRow(h) : h \in 0..n}
    /\ {r.txid : r \in transactions} = MirrorTxids(n)
    /\ Cardinality(transactions) = Cardinality(MirrorTxids(n))
    /\ \A r \in transactions :
          /\ r.block_height = r.txid[2]
          /\ r.status \in StatusOf(r.txid)
          /\ r.data = <<"json", <<"rt", r.txid>>>>
          /\ r.bitcoin_txids = UpTx(r.txid, processed).bitcoin_txids

\* C4. Resume correctness: a restarted process first fetches max(height) of
\* the store (0 on an empty store), and whenever its inner loop has drained,
\* Storage is what an uninterrupted run stores for the heights up to the tip.
C4_ResumeCorrect ==
    /\ (kills > 0 /\ firstFetch # -1) => firstFetch \in PersistedHeights \cup {0}
    /\ (kills > 0 /\ pc = "scheduled" /\ timer = CaughtUpDelay)
         => \E n \in {currentBlockHeight - 1, currentBlockHeight} : IsMirror(n)

\* a restarted process has caught up with tip 2
C4_Witness ==
    /\ kills = 1
    /\ firstFetch = 1
    /\ pc = "scheduled"
    /\ timer = CaughtUpDelay
    /\ currentBlockHeight = 3
    /\ IsMirror(2)

\* Storage holds, for every row, what the node returns now
UpstreamIdentical ==
    /\ \A r \in blocks : r = MirrorBlockRow(r.height)
    /\ \A r \in transactions :
          /\ r.status = (IF r.txid \in processed THEN 1 ELSE 0)
          /\ r.data = <<"json", <<"rt", r.txid>>>>
          /\ r.bitcoin_txids = UpTx(r.txid, processed).bitcoin_txids

\* C5. Idempotence: the COMMIT of a storeBlock call for a height that is
\* already persisted, with the upstream data identical to what is stored,
\* leaves both tables exactly as they were.
C5_Idempotent ==
    [][ (pc = "commit" /\ pc' = "commitReturn" /\ block.height \in PersistedHeights
           /\ UpstreamIdentical)
          => (blocks' = blocks /\ transactions' = transactions)
      ]_vars

\* height 1 with its two transactions has been stored a second time
C5_Witness ==
    /\ pc = "commitReturn"
    /\ kills = 1
    /\ block.height = 1
    /\ Len(promises) = 2
    /\ UpstreamIdentical
    /\ Cardinality(transactions) = 2

C7_CursorMonotone ==
    [][ (pc \in SyncPcs /\ kills' = kills)
          => \/ currentBlockHeight' = currentBlockHeight
             \/ /\ currentBlockHeight' = currentBlockHeight + 1
                /\ pc = "commitReturn"
                /\ block.height = currentBlockHeight
                /\ BlockRow(block) \in blocks
                /\ \A i \in 1..Len(block.transactions) :
                      \E r \in transactions : /\ r.txid = block.transactions[i]
                                              /\ r.block_height = block.height
      ]_vars

\* the cursor has been advanced twice in one run, with a retry in between
C7_Witness ==
    /\ kills = 0
    /\ currentBlockHeight = 2
    /\ pc = "backoff"
    /\ PersistedHeights = {0, 1}
    /\ late # {}

\* max(height) of the store, 0 when it is empty
MaxOrGenesis == IF blocks = {} THEN 0 ELSE MaxHeight(blocks)

\* C8. Startup cursor: the startup query sets the cursor to max(height) of
\* the persisted blocks, or to 0 on an empty store, and that value is the
\* first height asked of the node.
C8_StartupCursor ==
    [][ /\ (pc = "initQuery" /\ pc' = "isNodeReady")
            => currentBlockHeight' = MaxOrGenesis
        /\ (firstFetch' = -1 /\ pc' \in SyncPcs)
            => currentBlockHeight' = IF blocks' = {} THEN 0 ELSE MaxHeight(blocks')
        /\ (firstFetch = -1 /\ firstFetch' # -1 /\ kills' = kills)
            => firstFetch' = MaxOrGenesis
      ]_vars

\* a process started on a store holding heights 0..2 first fetches height 2
C8_Witness ==
    /\ kills = 1
    /\ firstFetch = 2
    /\ pc = "getBlock"
    /\ PersistedHeights = {0, 1, 2}

\* C9. Sync-loop error containment: no step of a running sync loop ends the
\* process or leaves the loop's states; a failed block leads to the backoff
\* with the loop condition still true for the same height, every other end of
\* a pass leaves a timer armed, and the pending backoff or timer can fire.
C9_ErrorContained ==
    [][ /\ (pc \in SyncPcs /\ kills' = kills) => pc' \in SyncPcs
        /\ pc' \in {"backoff", "scheduled"} => timer' > 0
        /\ pc' = "backoff" =>
              /\ timer' = BlockRetryDelay
              /\ currentBlockHeight' <= latestBlockHeight'
        /\ pc = "backoff" => ENABLED BackoffDone
        /\ pc = "scheduled" => ENABLED SyncTimer
        /\ pc' = "exited" => firstFetch' = -1
      ]_vars

\* the outer catch has scheduled the next pass after a failed call
C9_Witness ==
    /\ pc = "scheduled"
    /\ timer = ErrorDelay
    /\ currentBlockHeight = 1

\* a step keeps one pass running or scheduled: a pass that ends arms exactly
\* one timer, a timer that fires starts exactly one pass
OnePassAtATime ==
    /\ syncCalls' + syncTimers' <= 1
    /\ pc' \in SyncPcs => syncCalls' + syncTimers' = 1
    /\ pc' = "scheduled" <=> syncTimers' = 1
    /\ syncCalls' < syncCalls => syncTimers' = syncTimers + 1
    /\ syncTimers' < syncTimers => syncCalls' = syncCalls + 1
    /\ (txn'.status # "none" \/ promises' # <<>>) => syncCalls' = 1

\* C11 as stated. Single sync loop: at most one pass is running or scheduled,
\* a pass that ends schedules exactly one successor, a timer that fires starts
\* exactly one pass, and no write of a pass that has ended reaches Storage
\* while the transaction of its successor is open.
C11_SingleSyncLoop ==
    [][ kills' = kills =>
        /\ OnePassAtATime
        /\ \A l \in late :
              (l.ended /\ l \notin late' /\ (transactions' # transactions \/ txn' # txn))
                 => txn.status = "none"
      ]_vars

\* C12. Recovery liveness: in a run in which, from some point on, the node is
\* ready and no call fails, every tip t a pass has obtained is followed by a
\* state in which the cursor exceeds t and every height up to t is persisted.
C12_RecoveryLiveness ==
    \/ []<><<Faulty>>_vars
    \/ \A t \in Heights :
          (pc = "getBlockHash" /\ latestBlockHeight = t)
              ~> (currentBlockHeight > t /\ \A h \in 0..t : h \in PersistedHeights)

\* the loop has drained up to the highest tip although calls failed on the way
C12_Witness ==
    /\ pc = "scheduled"
    /\ currentBlockHeight = MaxTip + 1
    /\ PersistedHeights = 0..MaxTip
    /\ late # {}

\* C13. Upstream not ready: the step in which isNodeReady() answers false ends
\* the pass with a timer of 5 s armed; it issues no tip query and no fetch,
\* and leaves Storage, the cursor and the average as they are; when that timer
\* fires the process asks isNodeReady() again, whatever happened before.
C13_NotReadyFrame ==
    [][ /\ IsNodeReady(FALSE) =>
              /\ pc' = "scheduled" /\ timer' = NotReadyDelay
              /\ syncCalls' = 0 /\ syncTimers' = 1
              /\ UNCHANGED <<latestBlockHeight, blockHash, block, firstFetch, client,
                             promises>>
              /\ UNCHANGED <<blocks, transactions, txn>>
              /\ UNCHANGED <<currentBlockHeight, averageBlockTime>>
        /\ (pc = "scheduled" /\ timer = NotReadyDelay) => ENABLED SyncTimer
        /\ (pc = "scheduled" /\ timer = NotReadyDelay /\ pc' # pc /\ kills' = kills) =>
              /\ pc' = "isNodeReady"
              /\ UNCHANGED <<blocks, transactions, txn, currentBlockHeight,
                             averageBlockTime>>
      ]_vars

\* the node is not ready after block 0 was stored: the pass has ended with the
\* 5 s timer armed
C13_Witness ==
    /\ pc = "scheduled"
    /\ timer = NotReadyDelay
    /\ currentBlockHeight = 1
    /\ averageBlockTime # NoAverage
    /\ PersistedHeights = {0}

\* C14. Cold sync: in a run without faults that starts on the empty store, the
\* step that ends a pass which obtained tip T and ran the inner loop leaves
\* Storage holding exactly the blocks of heights 0..T with their transactions,
\* and the cursor at T + 1.
C14_ColdSync ==
    [][ (pc = "commitReturn" /\ pc' = "scheduled") =>
          /\ currentBlockHeight' = latestBlockHeight + 1
          /\ PersistedHeights' = 0..latestBlockHeight
          /\ blocks' = {MirrorBlockRow(h) : h \in 0..latestBlockHeight}
          /\ {r.txid : r \in transactions'} = MirrorTxids(latestBlockHeight)
          /\ \A r \in transactions' : r.block_height = r.txid[2]
      ]_vars

\* the pass that obtained the highest tip has ended on a store that was empty
C14_Witness ==
    /\ pc = "scheduled"
    /\ currentBlockHeight = MaxTip + 1
    /\ IsMirror(MaxTip)
    /\ averageBlockTime # NoAverage

\* the stored rows a search term matches: a transaction by its id, a block by
\* its hash, a block by its height when the term is the numeral of the height
TermTransactions(term) == {r \in transactions : TextEq(r.txid, term)}

TermHashBlocks(term) == {b \in blocks : TextEq(b.hash, term)}

TermHeightBlocks(term) == {b \in blocks : term = CharText(Decimal(b.height))}

\* the response of request k after the step
Answered(k, status) == req'[k].stage = "done" /\ req'[k].status = status

AnsweredWith(k, type, rows) ==
    /\ Answered(k, 200)
    /\ req'[k].body.type = type
    /\ req'[k].body.data \in rows

\* the three lookups in their order, each answering with its match
SearchOrder(k) ==
    LET term == req[k].param
    IN /\ SearchTransaction(k) =>
             IF TermTransactions(term) # {}
             THEN AnsweredWith(k, "transaction", TermTransactions(term))
             ELSE req'[k].stage = "q2" /\ req'[k].sent = 0
       /\ SearchHash(k) =>
             IF TermHashBlocks(term) # {}
             THEN AnsweredWith(k, "block", TermHashBlocks(term))
             ELSE \/ req'[k].stage = "q3" /\ req'[k].sent = 0
                  \/ Answered(k, 404)
       /\ (SearchHeight(k) /\ TermHeightBlocks(term) # {}) =>
             AnsweredWith(k, "block", TermHeightBlocks(term))

\* a term that matched no transaction id and no block hash, and matches no
\* height, is answered with not-found
SearchNotFound(k) ==
    LET term == req[k].param
    IN /\ (SearchHash(k) /\ TermHashBlocks(term) = {} /\ req'[k].stage = "done") =>
             Answered(k, 404)
       /\ (SearchHeight(k) /\ TermHeightBlocks(term) = {}) => Answered(k, 404)

\* C15 as stated. Search precedence: the lookups of a search run in the order
\* transaction id, block hash, block height; the response is the first match,
\* tagged "transaction" for a txid match and "block" for a hash or height
\* match; a term matching nothing is answered with not-found.
C15_SearchPrecedence ==
    [][ \A k \in Requests : SearchOrder(k) /\ SearchNotFound(k) ]_vars

\* the part of C15 about the order of the lookups and the first match
SearchOrderKept == [][ \A k \in Requests : SearchOrder(k) ]_vars

\* a search answered with the transaction although a stored block has the
\* term as its hash
SearchOrderSeen ==
    /\ req[1].route = "search" /\ req[1].stage = "done" /\ req[1].status = 200
    /\ req[1].body.type = "transaction"
    /\ TermHashBlocks(req[1].param) # {}

\* C16 as stated. Sync status cannot fail: every sync-status request is
\* answered with a successful progress response, also when the upstream tip
\* query fails.
C16_SyncStatusCannotFail ==
    \A k \in Requests :
        (req[k].route = "syncStatus" /\ req[k].stage = "done") => req[k].status = 200

\* the routes of C17: the lists, the block and transaction lookups, search
\* and network-stats
StorageRoutes == Routes \ {"root", "syncStatus"}

\* C17 as stated. Query API reads only Storage: the handlers of the list,
\* block, transaction, search and network-stats routes never wait for an
\* upstream call, and no rejected upstream call makes one of them fail.
C17_ReadsOnlyStorage ==
    [][ \A k \in Requests :
            req[k].route \in StorageRoutes =>
                /\ req'[k].route = req[k].route => req'[k].stage # "rpc"
                /\ ~RpcRejects(k)
      ]_vars

\* C18. Query API has no side effects: a step of a request handler, whatever
\* it answers, leaves the store, the cursor, the average block time and the
\* sync loop (its position, its timer, its calls and timers) unchanged, and
\* changes no other request.
C18_NoSideEffects ==
    [][ \A k \in Requests :
            req'[k] # req[k] =>
                /\ UNCHANGED <<blocks, transactions, txn>>
                /\ UNCHANGED <<currentBlockHeight, latestBlockHeight, averageBlockTime>>
                /\ UNCHANGED <<pc, timer, retries, syncCalls, syncTimers, promises, late>>
                /\ \A j \in Requests \ {k} : req'[j] = req[j]
      ]_vars

\* one request has failed and the other has been answered while a pass of the
\* sync loop is storing a block over a non-empty store
C18_Witness ==
    /\ req[1].stage = "done" /\ req[1].status = 500
    /\ req[2].stage = "done" /\ req[2].status = 200
    /\ txn.status = "open"
    /\ blocks # {}
    /\ averageBlockTime # NoAverage

\* the routes that look up one stored item
Lookups == {"transaction", "blockByHash", "blockByHeight", "search"}

\* the stored rows that the pending read of request k is asked for
Matching(k) ==
    LET r == req[k]
    IN CASE r.route = "transaction" -> TermTransactions(r.param)
         [] r.route = "blockByHash" -> TermHashBlocks(r.param)
         [] r.route = "blockByHeight" ->
                {b \in blocks : HeightIs(b, PgInt4In(r.param))}
         [] r.route = "search" /\ r.stage = "q1" -> TermTransactions(r.param)
         [] r.route = "search" /\ r.stage = "q2" -> TermHashBlocks(r.param)
         [] r.route = "search" /\ r.stage = "q3" -> TermHeightBlocks(r.param)
         [] OTHER -> {}

\* a step of the handler of request k (not the arrival of a request)
HandlerStep(k) == req'[k] # req[k] /\ req[k].stage \in {"q1", "q2", "q3", "rpc"}

\* one response per request, with status 200, 404 or 500; a 404 and a 500
\* carry the error message and nothing else; a read that throws gives 500
StructuredOutcome(k) ==
    /\ req'[k].sent <= 1
    /\ req'[k].stage = "done" <=> req'[k].sent = 1
    /\ HandlerStep(k) =>
          /\ req'[k].stage = "done" => req'[k].status \in {200, 404, 500}
          /\ Answered(k, 500) => req'[k].body = [error |-> "Internal server error"]
          /\ Answered(k, 404) => DOMAIN req'[k].body = {"error"}
          /\ StorageReadThrows(k) => Answered(k, 500)

\* a lookup answers 404 only when nothing stored matched, and never answers
\* with success when nothing stored matched
LookupOutcome(k) ==
    (HandlerStep(k) /\ req[k].route \in Lookups) =>
        /\ Answered(k, 404) => Matching(k) = {}
        /\ (Matching(k) = {} /\ req'[k].stage = "done") => ~Answered(k, 200)

\* C19 as stated. Query API outcomes: each request gets exactly one response:
\* the success payload, a structured 404 when the requested txid, hash, height
\* or search term matches nothing stored, or a structured 500 when a storage
\* read throws; a 500 carries no part of the data.
C19_Outcomes ==
    [][ \A k \in Requests : StructuredOutcome(k) /\ LookupOutcome(k) ]_vars

\* the parts of C19 other than the height lookup of search
OutcomesKept ==
    [][ \A k \in Requests :
            /\ StructuredOutcome(k)
            /\ (req[k].route = "search" /\ req[k].stage = "q3") \/ LookupOutcome(k)
      ]_vars

\* the second read of a block request threw after the first had found the
\* block: the answer is the bare error
OutcomesSeen ==
    /\ req[1].route = "blockByHeight" /\ req[1].stage = "done"
    /\ req[1].status = 500 /\ req[1].local # <<>>
    /\ req[1].body = [error |-> "Internal server error"]

\* the stored hash of the block below height h, NULL when there is none
HashBelow(h) ==
    IF \E p \in blocks : p.height = h - 1
    THEN (CHOOSE p \in blocks : p.height = h - 1).hash
    ELSE Null

\* the elements of a list
Range(list) == {list[i] : i \in 1..Len(list)}

\* C20. Block detail: the first read of a by-hash or by-height request that
\* finds the block at height h takes as previous_block_hash the stored hash of
\* height h - 1, NULL when height h - 1 is not stored; the second read answers
\* with that block, that previous_block_hash and, each once, exactly the txids
\* of the stored transactions whose block_height is h.
C20_BlockDetail ==
    [][ \A k \in Requests :
            /\ (BlockDetailBlock(k) /\ req'[k].stage = "q2") =>
                  /\ req'[k].local.height \in PersistedHeights
                  /\ Matching(k) # {}
                  /\ \E b \in Matching(k) :
                        /\ req'[k].local.height = b.height
                        /\ req'[k].local.hash = b.hash
                  /\ req'[k].local.previous_block_hash = HashBelow(req'[k].local.height)
            /\ BlockDetailTransactions(k) =>
                  /\ Answered(k, 200)
                  /\ req'[k].body.height = req[k].local.height
                  /\ req'[k].body.hash = req[k].local.hash
                  /\ req'[k].body.previous_block_hash = req[k].local.previous_block_hash
                  /\ Range(req'[k].body.transactions) =
                        {r.txid : r \in {t \in transactions :
                                            t.block_height = req[k].local.height}}
                  /\ Len(req'[k].body.transactions) =
                        Cardinality(Range(req'[k].body.transactions))
      ]_vars

\* after a cold sync GET /api/blocks/height/2 has been answered with the
\* stored hash of height 1
C20_Witness ==
    /\ req[1].route = "blockByHeight" /\ req[1].param = CharText(Decimal(2))
    /\ req[1].stage = "done" /\ req[1].status = 200
    /\ req[1].body.height = 2
    /\ req[1].body.previous_block_hash = UpHash(1)
    /\ \E b \in blocks : b.height = 1 /\ b.hash = req[1].body.previous_block_hash
    /\ IsMirror(MaxTip)

\* 0.9 * avg + 0.1 * s as a decimal fraction
Blend(avg, s) == Normal(9 * avg.num + s * Pow10(avg.exp), avg.exp + 1)

\* the average the claim asks for after a block stored with latency s: s for
\* the first block stored by the run (the cursor of a run that started on the
\* empty store counts the blocks it has stored), else 0.9 * previous + 0.1 * s
ExpectedAverage(s) ==
    IF currentBlockHeight = 0 THEN Normal(s, 0) ELSE Blend(averageBlockTime, s)

\* C21 as stated. EMA correctness: after the first stored block
\* averageBlockTime is its latency s1, and after each later stored block with
\* latency s it is 0.9 * previous + 0.1 * s, for all non-negative latencies.
C21_EmaCorrect ==
    [][ \A s \in Samples \cup BlockTimes :
            StoreBlockReturn(s) => averageBlockTime' = ExpectedAverage(s)
      ]_vars

\* the part of C21 for runs whose average is not 0 after the first block
EmaKept ==
    [][ \A s \in Samples \cup BlockTimes :
            (StoreBlockReturn(s) /\ (currentBlockHeight = 0 \/ averageBlockTime # NoAverage))
                => averageBlockTime' = ExpectedAverage(s)
      ]_vars

\* the samples [100, 200] have given 100 and then 110
EmaSeen ==
    /\ currentBlockHeight = 2
    /\ averageBlockTime = [num |-> 110, exp |-> 0]
    /\ late # {}

\* the span between the lowest and the highest of a set of timestamps, 0 for
\* the empty set
Span(stamps) ==
    IF stamps = {} THEN 0
    ELSE (CHOOSE m \in stamps : \A o \in stamps : m >= o)
            - (CHOOSE m \in stamps : \A o \in stamps : m <= o)

\* the timestamps of the blocks among the LastBlocks highest stored heights
LastStamps == {b.timestamp : b \in {b \in blocks : b.height > MaxHeight(blocks) - LastBlocks}}

\* C22. Stats guard: the two rate computations of network-stats never fail;
\* tps is 0 when the last minute holds no transaction or its time span is 0,
\* trueTps is 0 when the time span of the last 100 blocks is 0.
C22_StatsGuard ==
    [][ \A k \in Requests :
            /\ \A now \in Nows :
                  NetworkStatsRecent(k, now) =>
                      /\ req'[k].stage = "q3"
                      /\ Span({row[2].timestamp : row \in RecentRows(now)}) = 0
                            => req'[k].local.tps = 0
            /\ NetworkStatsLast100(k) =>
                  /\ Answered(k, 200)
                  /\ req'[k].body.tps = req[k].local.tps
                  /\ Span(LastStamps) = 0 => req'[k].body.trueTps = 0
      ]_vars

\* a network-stats response with tps 0 for a last minute that held the two
\* transactions of one block
C22_Witness ==
    /\ req[1].route = "networkStats" /\ req[1].stage = "done" /\ req[1].status = 200
    /\ req[1].body.tps = 0
    /\ req[1].body.totalTransactions = 2
    /\ \E now \in Nows : Cardinality(RecentRows(now)) = 2

\* the txids of the block the node knows under a hash
ListedTxids(hash) == {UpTransactions(hash)[i] : i \in 1..Len(UpTransactions(hash))}

\* C23. Consistent reads under concurrent sync: whatever steps of the sync
\* process (commits, failures, retries, writes of left-behind promises) run
\* between the two reads of a block request, the second read of a request
\* whose first read found the block returns the complete list of the
\* transactions of that block.
C23_ConsistentReads ==
    [][ \A k \in Requests :
            BlockDetailTransactions(k) =>
                /\ Answered(k, 200)
                /\ Range(req'[k].body.transactions) = ListedTxids(req[k].local.hash)
      ]_vars

\* a block with two transactions has been returned with both while the sync
\* process, after a failed storeBlock call, has a transaction open
C23_Witness ==
    /\ req[1].stage = "done" /\ req[1].status = 200
    /\ req[1].route \in {"blockByHash", "blockByHeight"}
    /\ Len(req[1].body.transactions) = 2
    /\ txn.status = "open"
    /\ late # {}

\* a stored row carries the detail the node returns for transaction t: its
\* runtime transaction, its bitcoin txids, and status 1 only if the node has
\* processed it
CarriesDetail(r, t) ==
    /\ r.data = <<"json", <<"rt", t>>>>
    /\ r.bitcoin_txids = (IF t[3] = 1 THEN <<>> ELSE << <<"btc", t>> >>)
    /\ r.status \in {0, 1}
    /\ r.status = 1 => t \in processed

\* C24. Faithful block content: when the COMMIT of storeBlock for height h is
\* executed, the store holds the block row of h with the hash and timestamp
\* of the node and, for every txid the node lists for the block, exactly one
\* transaction row, with block_height = h and the detail fetched for the
\* txid; for a block without transactions it holds no transaction row of h.
C24_FaithfulContent ==
    [][ (Commit /\ txn.status = "open") =>
            LET h == block.height
                listed == ListedTxids(UpHash(h))
            IN /\ h = currentBlockHeight
               /\ \E b \in blocks' :
                     /\ b.height = h
                     /\ b.hash = UpHash(h)
                     /\ b.timestamp = UpBlock(UpHash(h)).timestamp
               /\ Cardinality({b \in blocks' : b.height = h}) = 1
               /\ \A t \in listed :
                     /\ Cardinality({r \in transactions' : r.txid = t}) = 1
                     /\ \A r \in transactions' :
                           r.txid = t => r.block_height = h /\ CarriesDetail(r, t)
               /\ {r.txid : r \in {x \in transactions' : x.block_height = h}} = listed
      ]_vars

\* block 1 is committed with its two transactions, one of them already
\* processed by the node, after a storeBlock call for it had failed
C24_Witness ==
    /\ pc = "commitReturn"
    /\ block.height = 1
    /\ {r.txid : r \in {x \in transactions : x.block_height = 1}} = ListedTxids(UpHash(1))
    /\ \E r \in transactions : r.status = 1
    /\ \E r \in transactions : r.status = 0
    /\ late # {}

\* C25 as stated. No late writes from a failed attempt: when the fetch of a
\* promise that a failed storeBlock call left behind resolves, nothing is
\* written: no row of table transactions changes, neither directly nor
\* inside the open transaction of a later storeBlock call.
C25_NoLateWrites ==
    [][ \A l \in late :
            LateWrite(l) =>
                /\ transactions' = transactions
                /\ txn'.transactions = txn.transactions
      ]_vars

\* C26 as stated. isSynced soundness: when a sync-status response reports
\* isSynced = true together with latestBlockHeight = T, every block of height
\* 0..T is persisted.
C26_IsSyncedSound ==
    [][ \A k \in Requests :
            (HandlerStep(k) /\ req[k].route = "syncStatus" /\ Answered(k, 200)
                /\ req'[k].body.isSynced)
                => \A h \in 0..req'[k].body.latestBlockHeight : h \in PersistedHeights
      ]_vars

\* the whole term is an integer: digits only, after an optional sign
IsInteger(text) ==
    /\ text.kind = "chars"
    /\ LET signed == Len(text.chars) > 0 /\ Head(text.chars) \in {"+", "-"}
           body == IF signed THEN Tail(text.chars) ELSE text.chars
       IN body # <<>> /\ DigitPrefix(body) = body

\* C27 as stated. Search integer parsing: search issues its block-height
\* lookup only for a term that as a whole is an integer; a term that is not
\* an integer and equals no stored txid and no stored block hash is answered
\* with not-found.
C27_SearchWholeTerm ==
    [][ \A k \in Requests :
            /\ (SearchHash(k) /\ req'[k].stage = "q3") => IsInteger(req[k].param)
            /\ (SearchHeight(k) /\ ~IsInteger(req[k].param)) => Answered(k, 404)
      ]_vars

\* the stored transactions whose block is among the LastBlocks highest stored
\* heights
LastTransactions ==
    {t \in transactions :
        \E b \in blocks : b.height = t.block_height
                            /\ b.height > MaxHeight(blocks) - LastBlocks}

\* C28 as stated. trueTps numerator: the count used for trueTps is the number
\* of stored transactions whose block is among the 100 highest stored heights
\* (a block without transactions adds nothing), and trueTps is that count
\* divided by the span, in seconds, between the lowest and the highest
\* timestamp of those blocks.
C28_TrueTpsNumerator ==
    [][ \A k \in Requests :
            NetworkStatsLast100(k) =>
                /\ req'[k].local.last100BlocksTxCount = Cardinality(LastTransactions)
                /\ Span(LastStamps) > 0 =>
                      req'[k].body.trueTps =
                          Fixed2(Cardinality(LastTransactions) * 1000, Span(LastStamps))
      ]_vars

\* the states inside the while loop of a pass
LoopPcs == SyncPcs \ {"isNodeReady", "getBlockCount", "scheduled"}

\* C29. Fetches bounded by the observed tip: a height is asked of the node
\* only while it is at most the tip T the pass read; inside the loop T is
\* never read again and the cursor never goes back, so the heights asked lie
\* between the cursor at the start of the pass and T, retries included; T
\* changes only when getBlockCount answers at the start of a pass or when the
\* pass ends.
C29_FetchBounded ==
    [][ /\ pc' \in {"getBlockHash", "getBlock"}
            => currentBlockHeight' <= latestBlockHeight'
        /\ (pc = "getBlockHash" /\ blockHash' # blockHash /\ kills' = kills)
            => /\ blockHash' \in {NoHash, UpHash(currentBlockHeight)}
               /\ currentBlockHeight <= latestBlockHeight
        /\ (pc \in LoopPcs /\ pc' \in LoopPcs)
            => /\ latestBlockHeight' = latestBlockHeight
               /\ currentBlockHeight' \in {currentBlockHeight, currentBlockHeight + 1}
        /\ (latestBlockHeight' # latestBlockHeight /\ kills' = kills)
            => pc = "getBlockCount" \/ pc' = "scheduled"
      ]_vars

\* height 1, the tip of the pass, is asked again in the pass in which storing
\* it failed
C29_Witness ==
    /\ pc = "getBlock"
    /\ currentBlockHeight = 1
    /\ latestBlockHeight = 1
    /\ blockHash = UpHash(1)
    /\ \E l \in late : l.height = 1 /\ ~l.ended

\* C30. Startup ordering: the sync loop is entered only from the answered
\* cursor query, which is issued only after pool.connect() succeeded, and it
\* is entered with the cursor read from Storage; before that nothing is
\* fetched, no call of syncBlocks or timer exists and the tables are not
\* written; a failed cursor query ends the process, which never starts the
\* loop afterwards.
C30_StartupOrdering ==
    [][ /\ (pc # "initQuery" /\ pc' = "initQuery") => pc = "connectWithRetry"
        /\ (pc \notin SyncPcs /\ pc' \in SyncPcs)
            => /\ pc = "initQuery"
               /\ currentBlockHeight' = StartupHeight(blocks)
               /\ syncCalls' = 1
               /\ firstFetch' = -1
        /\ pc' \notin SyncPcs
            => /\ syncCalls' = 0 /\ syncTimers' = 0
               /\ firstFetch' = -1
               /\ txn' = NoTxn /\ late' = {}
               /\ blocks' = blocks /\ transactions' = transactions
        /\ InitQueryFail => pc' = "exited" /\ syncCalls' = 0 /\ syncTimers' = 0
        /\ (pc = "exited" /\ kills' = kills) => pc' = "exited"
      ]_vars

\* a restarted process whose first connection attempt failed has entered the
\* loop with the cursor read from a store holding heights 0 and 1, before any
\* fetch
C30_Witness ==
    /\ kills = 1
    /\ retries = 1
    /\ pc = "isNodeReady"
    /\ syncCalls = 1
    /\ firstFetch = -1
    /\ PersistedHeights = {0, 1}
    /\ currentBlockHeight = 1

\* the cursor query of a restarted process failed on a store holding blocks
\* and the process has exited
ExitedOnQuery ==
    /\ kills = 1
    /\ pc = "exited"
    /\ retries = 0
    /\ connects = 1
    /\ PersistedHeights = {0, 1}

\* C10. Bounded startup retry: connectWithRetry calls pool.connect() at most
\* MAX_RETRIES times, sleeps RETRY_DELAY after each failure, goes on to the
\* startup query at the first success, and after MAX_RETRIES failures the
\* process exits for good: the sync loop is never started.
C10_BoundedStartupRetry ==
    [][ kills' = kills =>
        /\ connects' <= MAX_RETRIES
        /\ pc' = "retrySleep" => timer' = RETRY_DELAY
        /\ (connects' = connects + 1 /\ retries' = retries) => pc' = "initQuery"
        /\ (connects' = connects + 1 /\ retries' # retries)
             => pc' = "retrySleep" /\ retries' = retries + 1
        /\ (pc = "connectWithRetry" /\ pc' # pc) => connects' = connects + 1
        /\ (pc = "retrySleep" /\ pc' = "connectWithRetry") => connects < MAX_RETRIES
        /\ (pc = "retrySleep" /\ pc' = "exited") => connects = MAX_RETRIES
        /\ pc = "exited" => pc' = "exited" /\ firstFetch' = -1
      ]_vars

\* ten attempts have failed and the process has exited
C10_Witness ==
    /\ pc = "exited"
    /\ connects = MAX_RETRIES
    /\ retries = MAX_RETRIES
    /\ firstFetch = -1

====
